---- MODULE Spec2Model ----
(***************************************************************************)
(* A model of the metrics engine (src/metrics_engine.py) and the reasoning *)
(* layer (src/ai_reasoning.py) as app.py drives them: a table is uploaded, *)
(* compute_advanced_metrics runs on it, summarize_business reads the       *)
(* metrics mapping, and answer_business_question answers typed questions.  *)
(*                                                                         *)
(* Text (column headers, questions) is a sequence of one-character         *)
(* strings, so that strip/lower/regex-replace and substring containment    *)
(* are computed rather than assumed.  A float is a record                  *)
(* [k, n, d]: k = "fin" with the exact value n/d in lowest terms (d > 0),  *)
(* or k in {"nan", "inf", "-inf"}.  round(x, 2) of an exact tie (a value   *)
(* ending in ...5 thousandths) goes either way, since the direction        *)
(* depends on the binary representation of the operands: the tie direction *)
(* is an input of every action that rounds.                                *)
(***************************************************************************)
EXTENDS Integers, Sequences, FiniteSets, TLC

VARIABLES df, pc, metrics, exc, summary, question, answer, probe, label

vars == <<df, pc, metrics, exc, summary, question, answer, probe, label>>

----------------------------------------------------------------------------
(* Text *)

UpperChars == <<"A","B","C","D","E","F","G","H","I","J","K","L","M",
                "N","O","P","Q","R","S","T","U","V","W","X","Y","Z">>
LowerChars == <<"a","b","c","d","e","f","g","h","i","j","k","l","m",
                "n","o","p","q","r","s","t","u","v","w","x","y","z">>
Digits == {"0","1","2","3","4","5","6","7","8","9"}
Whitespace == {" ", "\t", "\n"}

Range(s) == {s[i] : i \in DOMAIN s}

\* str.lower on one character
LowerChar(c) ==
  IF \E i \in DOMAIN UpperChars : UpperChars[i] = c
  THEN LowerChars[CHOOSE i \in DOMAIN UpperChars : UpperChars[i] = c]
  ELSE c

\* str.lower
Lower(s) == [i \in DOMAIN s |-> LowerChar(s[i])]

\* str.strip: leading and trailing whitespace removed
RECURSIVE LStrip(_)
LStrip(s) == IF s # <<>> /\ Head(s) \in Whitespace THEN LStrip(Tail(s)) ELSE s

RECURSIVE RStrip(_)
RStrip(s) ==
  IF s # <<>> /\ s[Len(s)] \in Whitespace
  THEN RStrip(SubSeq(s, 1, Len(s) - 1))
  ELSE s

Strip(s) == RStrip(LStrip(s))

\* the regex class \w
WordChars == Range(LowerChars) \cup Range(UpperChars) \cup Digits \cup {"_"}

IsWordChar(c) == c \in WordChars

\* str.replace(r"[^\w]+", "_", regex=True): every maximal run of non-word
\* characters becomes one underscore
RECURSIVE ReplaceNonWord(_)
ReplaceNonWord(s) ==
  IF s = <<>> THEN <<>>
  ELSE IF IsWordChar(Head(s)) THEN <<Head(s)>> \o ReplaceNonWord(Tail(s))
  ELSE IF Len(s) > 1 /\ ~IsWordChar(s[2]) THEN ReplaceNonWord(Tail(s))
  ELSE <<"_">> \o ReplaceNonWord(Tail(s))

\* `needle in haystack` on strings
Contains(haystack, needle) ==
  \E i \in 0..(Len(haystack) - Len(needle)) :
    SubSeq(haystack, i + 1, i + Len(needle)) = needle

RECURSIVE Concat(_)
Concat(ss) == IF ss = <<>> THEN <<>> ELSE Head(ss) \o Concat(Tail(ss))

----------------------------------------------------------------------------
(* Evaluation *)

\* F applied to the value of e, with e evaluated once
Eager(e, F(_)) == CHOOSE r \in {F(v) : v \in {e}} : TRUE

----------------------------------------------------------------------------
(* Floats *)

Abs(x) == IF x < 0 THEN -x ELSE x

Gcd[a \in Nat, b \in Nat] == IF b = 0 THEN a ELSE Gcd[b, a % b]

FloatSet == [k : {"fin", "nan", "inf", "-inf"}, n : Int, d : Int]

NaN == [k |-> "nan", n |-> 0, d |-> 1]
PosInf == [k |-> "inf", n |-> 0, d |-> 1]
NegInf == [k |-> "-inf", n |-> 0, d |-> 1]

\* the finite value n/d, d # 0, in lowest terms
Fin[n \in Int, d \in Int] ==
  [k |-> "fin",
   n |-> (IF d < 0 THEN -n ELSE n) \div Gcd[Abs(n), Abs(d)],
   d |-> Abs(d) \div Gcd[Abs(n), Abs(d)]]

Int2F(i) == Fin[i, 1]

IsFin(x) == x.k = "fin"

\* a / b on numpy scalars and pandas columns: x/0 is inf, -inf or nan, never
\* an exception
FDiv[a \in FloatSet, b \in FloatSet] ==
  IF ~IsFin(a) \/ ~IsFin(b) THEN NaN
  ELSE IF b.n = 0
       THEN (IF a.n > 0 THEN PosInf ELSE IF a.n < 0 THEN NegInf ELSE NaN)
       ELSE Fin[a.n * b.d, a.d * b.n]

FNeg[x \in FloatSet] ==
  IF IsFin(x) THEN Fin[-x.n, x.d]
  ELSE IF x.k = "inf" THEN NegInf
  ELSE IF x.k = "-inf" THEN PosInf
  ELSE NaN

\* x * y; no use of it multiplies an infinity by zero or by a negative
FMul[x \in FloatSet, y \in FloatSet] ==
  IF IsFin(x) /\ IsFin(y) THEN Fin[x.n * y.n, x.d * y.d]
  ELSE IF x.k = "nan" \/ y.k = "nan" THEN NaN
  ELSE IF IsFin(y) THEN x
  ELSE y

FAdd[x \in FloatSet, y \in FloatSet] ==
  IF x.k = "nan" \/ y.k = "nan" THEN NaN
  ELSE IF IsFin(x) /\ IsFin(y) THEN Fin[x.n * y.d + y.n * x.d, x.d * y.d]
  ELSE IF IsFin(x) THEN y
  ELSE IF IsFin(y) THEN x
  ELSE IF x.k = y.k THEN x
  ELSE NaN

FSub[x \in FloatSet, y \in FloatSet] == FAdd[x, FNeg[y]]

\* x < y; every comparison with nan is False
FLt[x \in FloatSet, y \in FloatSet] ==
  IF x.k = "nan" \/ y.k = "nan" THEN FALSE
  ELSE IF IsFin(x) /\ IsFin(y) THEN x.n * y.d < y.n * x.d
  ELSE IF x.k = "-inf" THEN y.k # "-inf"
  ELSE IF y.k = "inf" THEN x.k # "inf"
  ELSE FALSE

FGt[x \in FloatSet, y \in FloatSet] == FLt[y, x]

\* Python's max(a, b): b only if b > a
PyMax[a \in FloatSet, b \in FloatSet] == IF FGt[b, a] THEN b ELSE a

\* round(x, 2): the nearest multiple of 0.01; an exact tie goes up when tieUp
Round2[x \in FloatSet, tieUp \in BOOLEAN] ==
  IF ~IsFin(x) THEN x
  ELSE LET fl == (x.n * 100) \div x.d
           twice == 2 * (x.n * 100 - fl * x.d)
       IN IF twice < x.d THEN Fin[fl, 100]
          ELSE IF twice > x.d THEN Fin[fl + 1, 100]
          ELSE IF tieUp THEN Fin[fl + 1, 100] ELSE Fin[fl, 100]

\* the sum of a sequence of floats, left to right
FSum(xs0) ==
  LET F(xs) ==
        LET acc[i \in 0..Len(xs)] == IF i = 0 THEN Int2F(0) ELSE FAdd[acc[i - 1], xs[i]]
        IN acc[Len(xs)]
  IN Eager(xs0, F)

\* the sum of a sequence of integers
IntSum(xs0) ==
  LET F(xs) ==
        LET acc[i \in 0..Len(xs)] == IF i = 0 THEN 0 ELSE acc[i - 1] + xs[i]
        IN acc[Len(xs)]
  IN Eager(xs0, F)

\* the elements of s ordered by Before (a strict order on positions that
\* breaks ties by position), as a stable sort leaves them
SortedBy(s, Before(_, _)) ==
  LET Rank(i) == 1 + Cardinality({j \in DOMAIN s : Before(j, i)})
  IN [p \in DOMAIN s |-> s[CHOOSE i \in DOMAIN s : Rank(i) = p]]

\* x sorts before y descending; nan sorts last (na_position="last")
DescBefore(x, y) == IF x.k = "nan" THEN FALSE ELSE IF y.k = "nan" THEN TRUE ELSE FGt[x, y]

----------------------------------------------------------------------------
(* Tables *)

RequiredColumns ==
  {"order_id", "sales", "profit", "discount", "category", "sub_category",
   "region", "segment", "year"}

\* the characters of each column name the code looks up
ColumnChars ==
  [order_id |-> <<"o","r","d","e","r","_","i","d">>,
   sales |-> <<"s","a","l","e","s">>,
   profit |-> <<"p","r","o","f","i","t">>,
   discount |-> <<"d","i","s","c","o","u","n","t">>,
   category |-> <<"c","a","t","e","g","o","r","y">>,
   sub_category |-> <<"s","u","b","_","c","a","t","e","g","o","r","y">>,
   region |-> <<"r","e","g","i","o","n">>,
   segment |-> <<"s","e","g","m","e","n","t">>,
   year |-> <<"y","e","a","r">>]

\* Result of a call: a returned value or a raised exception
Ok(v) == [ok |-> TRUE, val |-> v]
Raise(type, text, columns) ==
  [ok |-> FALSE, err |-> [type |-> type, text |-> text, columns |-> columns]]

\* one column header normalized as normalize_columns does
NormalizeName(h) == ReplaceNonWord(Lower(Strip(h)))

normalize_columns(d) ==
  [columns |-> {NormalizeName(h) : h \in d.columns}, rows |-> d.rows]

\* `column in df.columns`
HasColumn(d, column) == ColumnChars[column] \in d.columns

\* the columns among cols (in the order given) that d lacks
MissingOf(d, cols) ==
  LET Absent(c) == ~HasColumn(d, c) IN SelectSeq(cols, Absent)

\* the sorted distinct values of a column, as groupby orders its groups
CategoryOrder == <<"Furniture", "Technology">>
SubCategoryOrder == <<"Chairs", "Phones">>
RegionOrder == <<"East", "West">>
SegmentOrder == <<"Consumer", "Corporate">>
YearOrder == <<2014, 2015>>
OrderIdOrder == <<"CA-1", "CA-2", "CA-3">>

ValueOrder(column) ==
  CASE column = "category" -> CategoryOrder
    [] column = "sub_category" -> SubCategoryOrder
    [] column = "region" -> RegionOrder
    [] column = "segment" -> SegmentOrder
    [] column = "year" -> YearOrder
    [] column = "order_id" -> OrderIdOrder

Column(rows, column) == [i \in DOMAIN rows |-> rows[i][column]]

\* Series.nunique(): a Python int
NUnique(rows, column) == Cardinality({rows[i][column] : i \in DOMAIN rows})

\* df.groupby(column): the groups in sorted key order, empty groups dropped
GroupBy(rows, column) ==
  LET Present(v) == \E i \in DOMAIN rows : rows[i][column] = v
      Groups(keys) ==
        [g \in DOMAIN keys |->
           LET In(r) == r[column] = keys[g]
           IN [key |-> keys[g], rows |-> SelectSeq(rows, In)]]
  IN Eager(SelectSeq(ValueOrder(column), Present), Groups)

\* total / base * 100 on floats
Pct(total, base) == FMul[FDiv[Int2F(total), Int2F(base)], Int2F(100)]

----------------------------------------------------------------------------
(* Metrics engine *)

ZeroDivisionError == Raise("ZeroDivisionError", "division by zero", <<>>)

\* df[column] on a missing column
KeyErrorOf(column) == Raise("KeyError", "{}", <<column>>)

\* groupby(...).agg(...) naming columns the frame lacks
AggKeyError(columns) == Raise("KeyError", "Column(s) {} do not exist", columns)

\* tie = [margin, loss, score |-> BOOLEAN]: the direction of each round()
compute_kpis(d0, tie) ==
  LET Body(d) ==
    IF ~HasColumn(d, "sales") THEN KeyErrorOf("sales")
    ELSE IF ~HasColumn(d, "profit") THEN KeyErrorOf("profit")
    ELSE
    LET total_revenue == IntSum(Column(d.rows, "sales"))
        total_profit == IntSum(Column(d.rows, "profit"))
        profit_margin == Pct(total_profit, total_revenue)
    IN
    IF ~HasColumn(d, "order_id") THEN KeyErrorOf("order_id")
    ELSE
    LET total_orders == NUnique(d.rows, "order_id")
        IsLoss(r) == r.profit < 0
        loss_orders == NUnique(SelectSeq(d.rows, IsLoss), "order_id")
    IN
    \* int / int: Python raises on a zero divisor
    IF total_orders = 0 THEN ZeroDivisionError
    ELSE
    LET loss_order_pct == Fin[loss_orders * 100, total_orders]
    IN Ok([total_revenue |-> Int2F(total_revenue),
           total_profit |-> Int2F(total_profit),
           profit_margin_pct |-> Round2[profit_margin, tie.margin],
           total_orders |-> total_orders,
           loss_order_pct |-> Round2[loss_order_pct, tie.loss]])
  IN Eager(normalize_columns(d0), Body)

profit_by_dimension(d, column) ==
  IF ~HasColumn(d, column)
  THEN Raise("ValueError", "Column '{}' not found in dataframe", <<column>>)
  ELSE IF MissingOf(d, <<"profit", "sales">>) # <<>>
  THEN AggKeyError(MissingOf(d, <<"profit", "sales">>))
  ELSE
  LET Agg(groups) ==
        [g \in DOMAIN groups |->
           LET total_sales == IntSum(Column(groups[g].rows, "sales"))
               total_profit == IntSum(Column(groups[g].rows, "profit"))
           IN (column :> groups[g].key) @@
              [total_sales |-> total_sales,
               total_profit |-> total_profit,
               profit_margin_pct |-> Pct(total_profit, total_sales)]]
      Sorted(agg) ==
        LET Before(i, j) ==
              \/ agg[i].total_profit < agg[j].total_profit
              \/ agg[i].total_profit = agg[j].total_profit /\ i < j
        IN Ok(SortedBy(agg, Before))
  IN Eager(Eager(GroupBy(d.rows, column), Agg), Sorted)

IndexError == Raise("IndexError", "single positional indexer is out-of-bounds", <<>>)

\* profit_by_dimension(df, column).iloc[0][column]
WorstOf(d, column) ==
  LET First(r) ==
        IF ~r.ok THEN r
        ELSE IF r.val = <<>> THEN IndexError
        ELSE Ok(r.val[1][column])
  IN Eager(profit_by_dimension(d, column), First)

worst_performers(d) ==
  LET Dict(w) ==
        IF ~w[1].ok THEN w[1]
        ELSE IF ~w[2].ok THEN w[2]
        ELSE IF ~w[3].ok THEN w[3]
        ELSE IF ~w[4].ok THEN w[4]
        ELSE Ok([worst_category |-> w[1].val, worst_sub_category |-> w[2].val,
                 worst_region |-> w[3].val, worst_segment |-> w[4].val])
  IN Eager(<<WorstOf(d, "category"), WorstOf(d, "sub_category"),
             WorstOf(d, "region"), WorstOf(d, "segment")>>, Dict)

\* discounts are in hundredths: bins = [-0.01, 0.10, 0.20, 0.30, 1.0]
bins == <<-1, 10, 20, 30, 100>>
labels == <<"0-10%", "10-20%", "20-30%", "30%+">>

NoBucket == "NaN"

\* pd.cut as it would bucket with a first edge of 0 in place of -0.01
Cut_FromZero(discount) ==
  IF \E b \in DOMAIN labels :
       (IF b = 1 THEN 0 ELSE bins[b]) < discount /\ discount <= bins[b + 1]
  THEN labels[CHOOSE b \in DOMAIN labels :
                (IF b = 1 THEN 0 ELSE bins[b]) < discount /\ discount <= bins[b + 1]]
  ELSE NoBucket

\* pd.cut(discount, bins, labels): right-closed intervals, nan outside them
Cut(discount) ==
  IF \E b \in DOMAIN labels : bins[b] < discount /\ discount <= bins[b + 1]
  THEN labels[CHOOSE b \in DOMAIN labels : bins[b] < discount /\ discount <= bins[b + 1]]
  ELSE NoBucket

discount_profit_analysis(d) ==
  IF ~HasColumn(d, "discount") THEN KeyErrorOf("discount")
  ELSE IF MissingOf(d, <<"order_id", "profit", "sales">>) # <<>>
  THEN AggKeyError(MissingOf(d, <<"order_id", "profit", "sales">>))
  ELSE
  \* grouping by a categorical column: one row per label, rows whose bucket
  \* is nan dropped
  LET In(b) == LET Test(r) == Cut(r.discount) = labels[b] IN SelectSeq(d.rows, Test)
      Agg(buckets) ==
        [b \in DOMAIN labels |->
           LET total_sales == IntSum(Column(buckets[b], "sales"))
               total_profit == IntSum(Column(buckets[b], "profit"))
           IN [discount_bucket |-> labels[b],
               total_sales |-> total_sales,
               total_profit |-> total_profit,
               order_count |-> NUnique(buckets[b], "order_id"),
               profit_margin_pct |-> Pct(total_profit, total_sales)]]
  IN Ok(Eager([b \in DOMAIN labels |-> In(b)], Agg))

\* Series.median(): nan of an empty column
Median(xs0) ==
  LET Mid(s) ==
        IF Len(s) = 0 THEN NaN
        ELSE IF Len(s) % 2 = 1 THEN Int2F(s[(Len(s) + 1) \div 2])
        ELSE Fin[s[Len(s) \div 2] + s[Len(s) \div 2 + 1], 2]
      Sort(xs) ==
        LET Before(i, j) == xs[i] < xs[j] \/ (xs[i] = xs[j] /\ i < j)
        IN Eager(SortedBy(xs, Before), Mid)
  IN Eager(xs0, Sort)

high_sales_negative_profit(d0) ==
  LET projection == <<"order_id", "sales", "profit", "discount", "category", "sub_category">>
      Body(d) ==
        IF ~HasColumn(d, "sales") THEN KeyErrorOf("sales")
        ELSE IF ~HasColumn(d, "profit") THEN KeyErrorOf("profit")
        ELSE IF MissingOf(d, projection) # <<>>
        THEN Raise("KeyError", "{} not in index", MissingOf(d, projection))
        ELSE
        LET Filter(sales_threshold) ==
              LET Keep(r) == FGt[Int2F(r.sales), sales_threshold] /\ r.profit < 0
                  Project(kept) ==
                    [i \in DOMAIN kept |->
                       [c \in {projection[p] : p \in DOMAIN projection} |-> kept[i][c]]]
              IN Ok(Eager(SelectSeq(d.rows, Keep), Project))
        IN Eager(Median(Column(d.rows, "sales")), Filter)
  IN Eager(normalize_columns(d0), Body)

consistency_analysis(d0, dimension, time_col) ==
  LET Body(d) ==
    IF ~HasColumn(d, dimension) \/ ~HasColumn(d, time_col)
    THEN Raise("ValueError", "Invalid dimension or time column", <<>>)
    ELSE IF ~HasColumn(d, "profit") THEN AggKeyError(<<"profit">>)
    ELSE
    LET PerPeriod(periods) ==
          [p \in DOMAIN periods |-> IntSum(Column(periods[p].rows, "profit"))]
        Row_(key, total_profit) ==
          LET loss_periods == Cardinality({p \in DOMAIN total_profit : total_profit[p] < 0})
              total_periods == Len(total_profit)
          IN (dimension :> key) @@
             [loss_periods |-> loss_periods,
              total_periods |-> total_periods,
              avg_profit |-> Fin[IntSum(total_profit), total_periods],
              loss_consistency_ratio |-> FDiv[Int2F(loss_periods), Int2F(total_periods)]]
        Agg(groups) ==
          [g \in DOMAIN groups |->
             LET R(total_profit) == Row_(groups[g].key, total_profit)
             IN Eager(Eager(GroupBy(groups[g].rows, time_col), PerPeriod), R)]
        Sorted(consistency) ==
          LET Before(i, j) ==
                \/ DescBefore(consistency[i].loss_consistency_ratio,
                              consistency[j].loss_consistency_ratio)
                \/ /\ ~DescBefore(consistency[j].loss_consistency_ratio,
                                  consistency[i].loss_consistency_ratio)
                   /\ i < j
          IN Ok(SortedBy(consistency, Before))
    IN Eager(Eager(GroupBy(d.rows, dimension), Agg), Sorted)
  IN Eager(normalize_columns(d0), Body)

\* a standard deviation, kept as the value it is the square root of
Sqrt(v) == [sqrt_of |-> v]

\* x < c for a standard deviation x and a float c > 0
StdLt(x, c) == FLt[x.sqrt_of, FMul[c, c]]

\* Series.std(): the sample standard deviation, nan of a single value
Std(xs, mean) ==
  IF Len(xs) < 2 THEN Sqrt(NaN)
  ELSE Sqrt(FDiv[FSum([i \in DOMAIN xs |-> FMul[FSub[xs[i], mean], FSub[xs[i], mean]]]),
                 Int2F(Len(xs) - 1)])

\* .fillna(0)
FillNa0(x) == IF x.sqrt_of.k = "nan" THEN Sqrt(Int2F(0)) ELSE x

\* x <= c for a standard deviation x and a float c > 0
StdLe(x, c) == ~FLt[FMul[c, c], x.sqrt_of]

\* the stability lambda as it would label with <= in place of <
stability_Inclusive(x) ==
  IF StdLe(x, Fin[5, 100]) THEN "Stable"
  ELSE IF StdLe(x, Fin[15, 100]) THEN "Moderate"
  ELSE "Unstable"

\* the stability lambda
stability(x) ==
  IF StdLt(x, Fin[5, 100]) THEN "Stable"
  ELSE IF StdLt(x, Fin[15, 100]) THEN "Moderate"
  ELSE "Unstable"

\* loss_orders of one (dimension, period) group: (x < 0).sum() over its
\* profit column, a count of line items
loss_orders_of(rows) ==
  LET IsLoss(r) == r.profit < 0 IN Len(SelectSeq(rows, IsLoss))

order_loss_consistency(d0, dimension, time_col) ==
  LET Body(d) ==
    IF MissingOf(d, <<dimension, time_col>>) # <<>>
    THEN KeyErrorOf(MissingOf(d, <<dimension, time_col>>)[1])
    ELSE IF MissingOf(d, <<"order_id", "profit">>) # <<>>
    THEN AggKeyError(MissingOf(d, <<"order_id", "profit">>))
    ELSE
    LET PerPeriod(periods) ==
          [p \in DOMAIN periods |->
             LET total_orders == NUnique(periods[p].rows, "order_id")
                 loss_orders == loss_orders_of(periods[p].rows)
             IN FDiv[Int2F(loss_orders), Int2F(total_orders)]]
        Row_(key, loss_order_ratio) ==
          LET WithAvg(avg_loss_ratio) ==
                LET WithStd(std_loss_ratio) ==
                      (dimension :> key) @@
                      [avg_loss_ratio |-> avg_loss_ratio,
                       std_loss_ratio |-> std_loss_ratio,
                       periods_analyzed |-> Len(loss_order_ratio),
                       stability |-> stability(std_loss_ratio)]
                IN Eager(FillNa0(Std(loss_order_ratio, avg_loss_ratio)), WithStd)
          IN Eager(FDiv[FSum(loss_order_ratio), Int2F(Len(loss_order_ratio))], WithAvg)
        Agg(groups) ==
          [g \in DOMAIN groups |->
             LET R(loss_order_ratio) == Row_(groups[g].key, loss_order_ratio)
             IN Eager(Eager(GroupBy(groups[g].rows, time_col), PerPeriod), R)]
        Sorted(consistency) ==
          LET Before(i, j) ==
                \/ DescBefore(consistency[i].avg_loss_ratio, consistency[j].avg_loss_ratio)
                \/ /\ ~DescBefore(consistency[j].avg_loss_ratio, consistency[i].avg_loss_ratio)
                   /\ i < j
          IN Ok(SortedBy(consistency, Before))
    IN Eager(Eager(GroupBy(d.rows, dimension), Agg), Sorted)
  IN Eager(normalize_columns(d0), Body)

\* profit_health_score as it would score without the final max(score, 0)
profit_health_score_Unclamped(d, tie) ==
  LET Score(kpis) ==
    IF ~kpis.ok THEN kpis
    ELSE
    LET score0 == Int2F(100)
        score1 == FSub[score0,
                       FMul[PyMax[Int2F(0), FNeg[kpis.val.profit_margin_pct]], Int2F(2)]]
        score2 == FSub[score1,
                       FMul[PyMax[Int2F(0), FSub[kpis.val.loss_order_pct, Int2F(15)]],
                            Fin[15, 10]]]
    IN Ok([health_score |-> Round2[score2, tie.score],
           profit_margin_pct |-> kpis.val.profit_margin_pct,
           loss_order_pct |-> kpis.val.loss_order_pct])
  IN Eager(compute_kpis(d, tie), Score)

profit_health_score(d, tie) ==
  LET Score(kpis) ==
    IF ~kpis.ok THEN kpis
    ELSE
    LET score0 == Int2F(100)
        score1 == FSub[score0,
                       FMul[PyMax[Int2F(0), FNeg[kpis.val.profit_margin_pct]], Int2F(2)]]
        score2 == FSub[score1,
                       FMul[PyMax[Int2F(0), FSub[kpis.val.loss_order_pct, Int2F(15)]],
                            Fin[15, 10]]]
    IN Ok([health_score |-> Round2[PyMax[score2, Int2F(0)], tie.score],
           profit_margin_pct |-> kpis.val.profit_margin_pct,
           loss_order_pct |-> kpis.val.loss_order_pct])
  IN Eager(compute_kpis(d, tie), Score)

MetricKeys ==
  {"profit_by_category", "profit_by_sub_category", "profit_by_region",
   "profit_by_segment", "worst_performers", "discount_analysis",
   "high_sales_negative_profit", "structural_collapse_by_category",
   "structural_inefficiency_by_category", "business_health"}

\* the calls of compute_advanced_metrics before the scoring, in program
\* order, each with the key it stores under
MetricStep(d, i) ==
  CASE i = 1 -> <<"profit_by_category", profit_by_dimension(d, "category")>>
    [] i = 2 -> <<"profit_by_sub_category", profit_by_dimension(d, "sub_category")>>
    [] i = 3 -> <<"profit_by_region", profit_by_dimension(d, "region")>>
    [] i = 4 -> <<"profit_by_segment", profit_by_dimension(d, "segment")>>
    [] i = 5 -> <<"worst_performers", worst_performers(d)>>
    [] i = 6 -> <<"discount_analysis", discount_profit_analysis(d)>>
    [] i = 7 -> <<"high_sales_negative_profit", high_sales_negative_profit(d)>>
    [] i = 8 -> <<"structural_collapse_by_category", consistency_analysis(d, "category", "year")>>
    [] i = 9 -> <<"structural_inefficiency_by_category",
                  order_loss_consistency(d, "category", "year")>>

EmptyDict == [key \in {} |-> 0]

\* the steps as they would run if a failing call were skipped and the dict
\* returned with the keys stored so far
RECURSIVE RunSteps_SkipFailed(_, _, _)
RunSteps_SkipFailed(d, i, m) ==
  IF i > 9 THEN Ok(m)
  ELSE LET Store(step) ==
             IF ~step[2].ok THEN RunSteps_SkipFailed(d, i + 1, m)
             ELSE RunSteps_SkipFailed(d, i + 1, (step[1] :> step[2].val) @@ m)
       IN Eager(MetricStep(d, i), Store)

\* the local dict `metrics` after steps i..9, started from m: the first
\* exception ends the call and the dict is dropped with the frame
RECURSIVE RunSteps(_, _, _)
RunSteps(d, i, m) ==
  IF i > 9 THEN Ok(m)
  ELSE LET Store(step) ==
             IF ~step[2].ok THEN step[2]
             ELSE RunSteps(d, i + 1, (step[1] :> step[2].val) @@ m)
       IN Eager(MetricStep(d, i), Store)

Ties == [margin : BOOLEAN, loss : BOOLEAN, score : BOOLEAN]

\* the outcomes of compute_advanced_metrics(df): one, but for the direction
\* of the rounding ties in the last step
compute_advanced_metrics(d0) ==
  LET Body(d) ==
        LET Scoring(before) ==
              IF ~before.ok THEN {before}
              ELSE {LET Store(health) ==
                          IF ~health.ok THEN health
                          ELSE Ok(("business_health" :> health.val) @@ before.val)
                    IN Eager(profit_health_score(d, tie), Store) : tie \in Ties}
        IN Eager(RunSteps(d, 1, EmptyDict), Scoring)
  IN Eager(normalize_columns(d0), Body)

----------------------------------------------------------------------------
(* Reasoning layer *)

\* Series.max(): nan values skipped, nan of an empty column
SeriesMax(xs) ==
  LET vals == {xs[i] : i \in {j \in DOMAIN xs : xs[j].k # "nan"}}
  IN IF vals = {} THEN NaN
     ELSE CHOOSE x \in vals : \A y \in vals : ~FGt[y, x]

\* the chain as it would decide with the 0.35 test ahead of the collapse test
RiskLevel_InefficiencyFirst(collapse_risk, highest_loss_ratio) ==
  IF FGt[highest_loss_ratio, Fin[35, 100]] THEN "High (Structural Inefficiency)"
  ELSE IF FGt[collapse_risk, Int2F(0)] THEN "Severe (Structural Collapse Detected)"
  ELSE IF FGt[highest_loss_ratio, Fin[25, 100]] THEN "Moderate"
  ELSE "Low"

\* the chain as it would decide with collapse_risk >= 0 in place of > 0
RiskLevel_CollapseAtZero(collapse_risk, highest_loss_ratio) ==
  IF ~FLt[collapse_risk, Int2F(0)] THEN "Severe (Structural Collapse Detected)"
  ELSE IF FGt[highest_loss_ratio, Fin[35, 100]] THEN "High (Structural Inefficiency)"
  ELSE IF FGt[highest_loss_ratio, Fin[25, 100]] THEN "Moderate"
  ELSE "Low"

\* the if/elif chain that sets risk_level
RiskLevel(collapse_risk, highest_loss_ratio) ==
  IF FGt[collapse_risk, Int2F(0)] THEN "Severe (Structural Collapse Detected)"
  ELSE IF FGt[highest_loss_ratio, Fin[35, 100]] THEN "High (Structural Inefficiency)"
  ELSE IF FGt[highest_loss_ratio, Fin[25, 100]] THEN "Moderate"
  ELSE "Low"

summarize_business(m, tieUp) ==
  LET health == m["business_health"]
      collapse == m["structural_collapse_by_category"]
      inefficiency == m["structural_inefficiency_by_category"]
      Decide(collapse_risk) ==
        IF inefficiency = <<>> THEN IndexError
        ELSE
        LET highest_risk_row == inefficiency[1]
            highest_risk_category == highest_risk_row.category
            highest_loss_ratio == highest_risk_row.avg_loss_ratio
            risk_level == RiskLevel(collapse_risk, highest_loss_ratio)
        IN Ok([health_score |-> health.health_score,
               profit_margin_pct |-> health.profit_margin_pct,
               loss_order_pct |-> health.loss_order_pct,
               highest_risk_category |-> highest_risk_category,
               highest_loss_ratio |-> Round2[FMul[highest_loss_ratio, Int2F(100)], tieUp],
               risk_level |-> risk_level])
  IN Eager(SeriesMax([i \in DOMAIN collapse |-> collapse[i].loss_consistency_ratio]), Decide)

\* the keyword lists of answer_business_question, in program order
health_words ==
  <<<<"h","e","a","l","t","h">>,
    <<"o","v","e","r","a","l","l"," ","s","c","o","r","e">>,
    <<"b","u","s","i","n","e","s","s"," ","c","o","n","d","i","t","i","o","n">>>>

margin_words ==
  <<<<"m","a","r","g","i","n">>,
    <<"p","r","o","f","i","t"," ","m","a","r","g","i","n">>>>

loss_order_words ==
  <<<<"l","o","s","s"," ","o","r","d","e","r">>,
    <<"l","o","s","s"," ","o","r","d","e","r","s">>,
    <<"l","o","s","s"," ","p","e","r","c","e","n","t","a","g","e">>,
    <<"h","o","w"," ","m","a","n","y"," ","l","o","s","s">>>>

risk_category_words ==
  <<<<"h","i","g","h","e","s","t"," ","r","i","s","k">>,
    <<"r","i","s","k"," ","c","a","t","e","g","o","r","y">>,
    <<"m","o","s","t"," ","r","i","s","k","y">>>>

stability_words ==
  <<<<"s","t","a","b","l","e">>,
    <<"s","t","a","b","i","l","i","t","y">>,
    <<"v","o","l","a","t","i","l","i","t","y">>,
    <<"u","n","s","t","a","b","l","e">>>>

risk_word == <<"r","i","s","k">>

\* any(word in q for word in words)
AnyIn(q, words) == \E i \in DOMAIN words : Contains(q, words[i])

\* an f-string: its literal text with {} for each substituted value, and the
\* values
Text(template, args) == [template |-> template, args |-> args]

HealthText == "The overall business health score is {}/100."
MarginText == "The current profit margin is {}%."
LossOrderText == "{}% of total orders are loss-making."
RiskCategoryText ==
  "The category with highest structural inefficiency is {} with approximately {}% loss-making orders."
StabilityText == "{} shows {} behavior with an average loss ratio of {}%."
RiskLevelText == "Risk classification is: {}."
NotRecognizedText ==
  "Question not recognized. You can ask about health, margin, loss orders, risk level, or stability."

\* the chain as it would answer with the "risk" test ahead of the stability
\* test
Route_RiskBeforeStability(q, s, m, tieUp) ==
  IF AnyIn(q, health_words)
  THEN Ok(Text(HealthText, <<s.health_score>>))
  ELSE IF AnyIn(q, margin_words)
  THEN Ok(Text(MarginText, <<s.profit_margin_pct>>))
  ELSE IF AnyIn(q, loss_order_words)
  THEN Ok(Text(LossOrderText, <<s.loss_order_pct>>))
  ELSE IF AnyIn(q, risk_category_words)
  THEN Ok(Text(RiskCategoryText, <<s.highest_risk_category, s.highest_loss_ratio>>))
  ELSE IF Contains(q, risk_word)
  THEN Ok(Text(RiskLevelText, <<s.risk_level>>))
  ELSE IF AnyIn(q, stability_words)
  THEN LET worst == m["structural_inefficiency_by_category"][1]
       IN Ok(Text(StabilityText,
                  <<worst.category, worst.stability,
                    Round2[FMul[worst.avg_loss_ratio, Int2F(100)], tieUp]>>))
  ELSE Ok(Text(NotRecognizedText, <<>>))

\* the if/elif chain on the lowered, stripped question q and the summary s
Route(q, s, m, tieUp) ==
  IF AnyIn(q, health_words)
  THEN Ok(Text(HealthText, <<s.health_score>>))
  ELSE IF AnyIn(q, margin_words)
  THEN Ok(Text(MarginText, <<s.profit_margin_pct>>))
  ELSE IF AnyIn(q, loss_order_words)
  THEN Ok(Text(LossOrderText, <<s.loss_order_pct>>))
  ELSE IF AnyIn(q, risk_category_words)
  THEN Ok(Text(RiskCategoryText, <<s.highest_risk_category, s.highest_loss_ratio>>))
  ELSE IF AnyIn(q, stability_words)
  THEN LET worst == m["structural_inefficiency_by_category"][1]
       IN Ok(Text(StabilityText,
                  <<worst.category, worst.stability,
                    Round2[FMul[worst.avg_loss_ratio, Int2F(100)], tieUp]>>))
  ELSE IF Contains(q, risk_word)
  THEN Ok(Text(RiskLevelText, <<s.risk_level>>))
  ELSE Ok(Text(NotRecognizedText, <<>>))

answer_business_question(question_, m, tieUp) ==
  LET Answer(qs) == IF ~qs[2].ok THEN qs[2] ELSE Route(qs[1], qs[2].val, m, tieUp)
  IN Eager(<<Strip(Lower(question_)), summarize_business(m, tieUp)>>, Answer)

----------------------------------------------------------------------------
(* Inputs *)

MaxRows == 3
MaxFragments == 2
MaxStdProbe == 40

\* header spellings of an uploaded file: as exported, already normalized, and
\* a hand-edited export whose profit header carries a unit
ExportedHeaders ==
  [order_id |-> <<"O","r","d","e","r"," ","I","D">>,
   sales |-> <<"S","a","l","e","s">>,
   profit |-> <<"P","r","o","f","i","t">>,
   discount |-> <<"D","i","s","c","o","u","n","t">>,
   category |-> <<"C","a","t","e","g","o","r","y">>,
   sub_category |-> <<"S","u","b","-","C","a","t","e","g","o","r","y">>,
   region |-> <<"R","e","g","i","o","n">>,
   segment |-> <<"S","e","g","m","e","n","t">>,
   year |-> <<"Y","e","a","r">>]

PlainHeaders == ColumnChars

EditedHeaders ==
  [order_id |-> <<" ","O","R","D","E","R"," "," ","I","D"," ">>,
   sales |-> <<"S","a","l","e","s">>,
   profit |-> <<"P","r","o","f","i","t"," ","(","$",")">>,
   discount |-> <<"D","i","s","c","o","u","n","t">>,
   category |-> <<"C","a","t","e","g","o","r","y">>,
   sub_category |-> <<"S","u","b"," ","C","a","t","e","g","o","r","y">>,
   region |-> <<"R","e","g","i","o","n">>,
   segment |-> <<"S","e","g","m","e","n","t">>,
   year |-> <<"Y","e","a","r">>]

HeaderStyles == <<ExportedHeaders, PlainHeaders, EditedHeaders>>

Headers(style, present) == {HeaderStyles[style][c] : c \in present}

Row(o, s, p, disc, c, y) ==
  [order_id |-> o, sales |-> s, profit |-> p, discount |-> disc,
   category |-> c,
   sub_category |-> IF c = "Furniture" THEN "Chairs" ELSE "Phones",
   region |-> IF o = "CA-1" THEN "West" ELSE "East",
   segment |-> IF y = 2014 THEN "Consumer" ELSE "Corporate",
   year |-> y]

ProfitVals == <<-1, 2>>

\* the tuples <<a[1], ..., a[n]>> with a[i] drawn from the sequence doms[i],
\* listed in order, the first position varying fastest
Combos(doms) ==
  LET size[i \in 0..Len(doms)] == IF i = 0 THEN 1 ELSE size[i - 1] * Len(doms[i])
      Pick(c, i) == (((c - 1) \div size[i - 1]) % Len(doms[i])) + 1
  IN [c \in 1..size[Len(doms)] |-> [i \in DOMAIN doms |-> doms[i][Pick(c, i)]]]

\* line items that vary the grouping columns, each selling 1 at no discount
RiskRowSeq ==
  LET c == Combos(<<OrderIdOrder, ProfitVals, CategoryOrder, YearOrder>>)
  IN [i \in DOMAIN c |-> Row(c[i][1], 1, c[i][2], 0, c[i][3], c[i][4])]

\* line items of one category that vary the order, the profit and the year
StabilityRowSeq ==
  LET c == Combos(<<OrderIdOrder, ProfitVals, YearOrder>>)
  IN [i \in DOMAIN c |-> Row(c[i][1], 1, c[i][2], 0, "Furniture", c[i][3])]

\* line items that vary the amounts
KpiRowSeq ==
  LET c == Combos(<<OrderIdOrder, <<0, 1, 10>>, <<-3, 1>>>>)
  IN [i \in DOMAIN c |-> Row(c[i][1], c[i][2], c[i][3], 0, "Furniture", 2014)]

\* line items of two orders that vary the discount, in hundredths
DiscountRowSeq ==
  LET c == Combos(<<SubSeq(OrderIdOrder, 1, 2), ProfitVals, <<0, 10, 25, 101>>>>)
  IN [i \in DOMAIN c |-> Row(c[i][1], 1, c[i][2], c[i][3], "Furniture", 2014)]

\* the non-decreasing index sequences of length n over lo..hi
RECURSIVE Multisets(_, _, _)
Multisets(n, lo, hi) ==
  IF n = 0 THEN {<<>>}
  ELSE UNION {{<<i>> \o t : t \in Multisets(n - 1, i, hi)} : i \in lo..hi}

\* the tables of at most maxRows line items of rowSeq; rows are listed in one
\* order only, since every result but the row order of
\* high_sales_negative_profit is computed through groupby and sort_values
TablesOver(rowSeq, maxRows) ==
  UNION {{[j \in DOMAIN t |-> rowSeq[t[j]]] : t \in Multisets(n, 1, Len(rowSeq))} :
           n \in 0..maxRows}

\* Furniture loses in both years, Technology never
SevereTable ==
  <<Row("CA-1", 1, -1, 0, "Furniture", 2014), Row("CA-2", 1, -1, 0, "Furniture", 2015),
    Row("CA-3", 1, 2, 0, "Technology", 2014), Row("CA-3", 1, 2, 0, "Technology", 2015)>>

\* one of two Furniture orders loses, the year stays profitable
HighTable ==
  <<Row("CA-1", 1, -1, 0, "Furniture", 2014), Row("CA-2", 1, 2, 0, "Furniture", 2014),
    Row("CA-3", 1, 2, 0, "Technology", 2015)>>

LowTable ==
  <<Row("CA-1", 10, 2, 10, "Furniture", 2014), Row("CA-2", 10, 2, 25, "Technology", 2015)>>

ExampleTables == {SevereTable, HighTable, LowTable}

Fragments ==
  {<<"h","e","a","l","t","h">>,
   <<"o","v","e","r","a","l","l"," ","s","c","o","r","e">>,
   <<"b","u","s","i","n","e","s","s"," ","c","o","n","d","i","t","i","o","n">>,
   <<"m","a","r","g","i","n">>,
   <<"p","r","o","f","i","t"," ","m","a","r","g","i","n">>,
   <<"l","o","s","s"," ","o","r","d","e","r">>,
   <<"l","o","s","s"," ","o","r","d","e","r","s">>,
   <<"l","o","s","s"," ","p","e","r","c","e","n","t","a","g","e">>,
   <<"h","o","w"," ","m","a","n","y"," ","l","o","s","s">>,
   <<"h","i","g","h","e","s","t"," ","r","i","s","k">>,
   <<"r","i","s","k"," ","c","a","t","e","g","o","r","y">>,
   <<"m","o","s","t"," ","r","i","s","k","y">>,
   <<"s","t","a","b","l","e">>,
   <<"s","t","a","b","i","l","i","t","y">>,
   <<"v","o","l","a","t","i","l","i","t","y">>,
   <<"u","n","s","t","a","b","l","e">>,
   <<"r","i","s","k">>,
   <<"W","h","a","t"," ","i","s"," ","o","u","r"," ","h","e","a","l","t","h","?">>,
   <<"x","y","z">>,
   <<" ">>,
   <<"R","I","S","K">>,
   <<"\t","I","s"," ","i","t"," ">>}

\* the questions: at most MaxFragments fragments typed one after another
RECURSIVE FragmentSeqs(_)
FragmentSeqs(n) ==
  IF n = 0 THEN {<<>>}
  ELSE {<<>>} \cup {f \o t : f \in Fragments, t \in FragmentSeqs(n - 1)}

Questions == FragmentSeqs(MaxFragments)

----------------------------------------------------------------------------
(* The application: app.py *)

None == [none |-> TRUE]

Unlabelled == "None"

InitRest ==
  /\ pc = "uploaded"
  /\ metrics = None
  /\ exc = None
  /\ summary = None
  /\ question = <<>>
  /\ answer = None
  /\ label = Unlabelled

Uploaded(tables) ==
  {[columns |-> Headers(1, RequiredColumns), rows |-> t] : t \in tables}

\* any table of line items over the grouping columns, with the exported
\* headers
Init ==
  /\ df \in Uploaded(TablesOver(RiskRowSeq, MaxRows))
  /\ probe = 0
  /\ InitRest

\* any table of line items over the amounts
InitKpi ==
  /\ df \in Uploaded(TablesOver(KpiRowSeq, MaxRows))
  /\ probe = 0
  /\ InitRest

\* any table of line items over the discounts
InitDiscount ==
  /\ df \in Uploaded(TablesOver(DiscountRowSeq, MaxRows))
  /\ probe = 0
  /\ InitRest

\* a file with any subset of the columns, in any header spelling
InitColumns ==
  /\ df \in {[columns |-> Headers(style, present), rows |-> t] :
               style \in DOMAIN HeaderStyles,
               present \in SUBSET RequiredColumns,
               t \in {<<>>, SevereTable}}
  /\ probe = 0
  /\ InitRest

InitQA ==
  /\ df \in Uploaded(ExampleTables)
  /\ probe = 0
  /\ InitRest

\* a table, or a std_loss_ratio of probe/200 for the stability lambda
InitStability ==
  /\ \/ /\ df \in Uploaded(TablesOver(StabilityRowSeq, MaxRows))
        /\ probe = 0
     \/ /\ df \in Uploaded({<<>>})
        /\ probe \in 0..MaxStdProbe
  /\ InitRest

\* metrics = compute_advanced_metrics(df); an exception ends the script
ComputeAdvancedMetrics ==
  /\ pc = "uploaded"
  /\ \E r \in compute_advanced_metrics(df) :
          IF r.ok
          THEN /\ metrics' = r.val
               /\ pc' = "computed"
               /\ exc' = exc
          ELSE /\ exc' = r.err
               /\ pc' = "failed"
               /\ metrics' = metrics
  /\ UNCHANGED <<df, summary, question, answer, probe, label>>

\* summary = summarize_business(metrics)
SummarizeBusiness ==
  /\ pc = "computed"
  /\ \E tieUp \in BOOLEAN :
       LET r == summarize_business(metrics, tieUp)
       IN IF r.ok
          THEN /\ summary' = r.val
               /\ pc' = "summarized"
               /\ exc' = exc
          ELSE /\ exc' = r.err
               /\ pc' = "failed"
               /\ summary' = summary
  /\ UNCHANGED <<df, metrics, question, answer, probe, label>>

\* answer = answer_business_question(user_question, metrics), run when the
\* question typed is not empty
AnswerBusinessQuestion ==
  /\ pc = "summarized"
  /\ \E q \in Questions \ {<<>>}, tieUp \in BOOLEAN :
       LET r == answer_business_question(q, metrics, tieUp)
       IN /\ question' = q
          /\ IF r.ok
             THEN /\ answer' = r.val
                  /\ pc' = "answered"
                  /\ exc' = exc
             ELSE /\ exc' = r.err
                  /\ pc' = "failed"
                  /\ answer' = answer
  /\ UNCHANGED <<df, metrics, summary, probe, label>>

\* the stability lambda applied to the std_loss_ratio value probe/200
ClassifyStability ==
  /\ label = Unlabelled
  /\ label' = stability(Sqrt(FMul[Fin[probe, 200], Fin[probe, 200]]))
  /\ UNCHANGED <<df, pc, metrics, exc, summary, question, answer, probe>>

Next == ComputeAdvancedMetrics \/ SummarizeBusiness

NextQA == ComputeAdvancedMetrics \/ SummarizeBusiness \/ AnswerBusinessQuestion

NextStability == ComputeAdvancedMetrics \/ SummarizeBusiness \/ ClassifyStability

Spec == Init /\ [][Next]_vars

SpecKpi == InitKpi /\ [][Next]_vars

SpecDiscount == InitDiscount /\ [][Next]_vars

SpecColumns == InitColumns /\ [][Next]_vars

SpecQA == InitQA /\ [][NextQA]_vars

SpecStability == InitStability /\ [][NextStability]_vars

----------------------------------------------------------------------------
(* Properties *)

Computed == pc \in {"computed", "summarized", "answered"}

Sum(xs) == IntSum(xs)

\* a finite value with at most two decimals, in hundredths
Hundredths(x) == (x.n * 100) \div x.d

Max0(i) == IF i > 0 THEN i ELSE 0

----------------------------------------------------------------------------
(* C1: the first matching keyword group decides the answer *)

\* the six keyword groups in priority order
C1_Groups ==
  <<{<<"h","e","a","l","t","h">>, <<"o","v","e","r","a","l","l"," ","s","c","o","r","e">>, <<"b","u","s","i","n","e","s","s"," ","c","o","n","d","i","t","i","o","n">>},
    {<<"m","a","r","g","i","n">>, <<"p","r","o","f","i","t"," ","m","a","r","g","i","n">>},
    {<<"l","o","s","s"," ","o","r","d","e","r">>, <<"l","o","s","s"," ","o","r","d","e","r","s">>, <<"l","o","s","s"," ","p","e","r","c","e","n","t","a","g","e">>, <<"h","o","w"," ","m","a","n","y"," ","l","o","s","s">>},
    {<<"h","i","g","h","e","s","t"," ","r","i","s","k">>, <<"r","i","s","k"," ","c","a","t","e","g","o","r","y">>, <<"m","o","s","t"," ","r","i","s","k","y">>},
    {<<"s","t","a","b","l","e">>, <<"s","t","a","b","i","l","i","t","y">>, <<"v","o","l","a","t","i","l","i","t","y">>, <<"u","n","s","t","a","b","l","e">>},
    {<<"r","i","s","k">>}>>

\* the canned response of each group, and of no group
C1_Responses ==
  <<HealthText, MarginText, LossOrderText, RiskCategoryText, StabilityText,
    RiskLevelText, NotRecognizedText>>

C1_Matches(i) == \E w \in C1_Groups[i] : Contains(Strip(Lower(question)), w)

C1_Lowest ==
  IF \E i \in 1..6 : C1_Matches(i)
  THEN CHOOSE i \in 1..6 : C1_Matches(i) /\ \A j \in 1..(i - 1) : ~C1_Matches(j)
  ELSE 7

C1_Values(i) ==
  CASE i = 1 -> answer.args = <<summary.health_score>>
    [] i = 2 -> answer.args = <<summary.profit_margin_pct>>
    [] i = 3 -> answer.args = <<summary.loss_order_pct>>
    [] i = 4 -> answer.args[1] = summary.highest_risk_category
    [] i = 5 -> /\ answer.args[1] = metrics["structural_inefficiency_by_category"][1].category
                /\ answer.args[2] = metrics["structural_inefficiency_by_category"][1].stability
    [] i = 6 -> answer.args = <<summary.risk_level>>
    [] i = 7 -> answer.args = <<>>

\* C1: whatever the question, the answer returned is the canned response of
\* the lowest-numbered keyword group with a keyword contained in the lowered,
\* trimmed question, filled with the summary's values, and the not-recognized
\* message when no group matches; "What is our health?" gets the health
\* sentence and "xyz" the not-recognized message.
C1_FirstMatchWins ==
  pc = "answered" =>
    /\ answer.template = C1_Responses[C1_Lowest]
    /\ C1_Values(C1_Lowest)
    /\ question = <<"W","h","a","t"," ","i","s"," ","o","u","r"," ","h","e","a","l","t","h","?">>
         => answer.template = HealthText
    /\ question = <<"x","y","z">> => answer.template = NotRecognizedText

\* a question matching groups 5 and 6 only has been answered from group 5
C1_StableAndRiskAnswered ==
  /\ pc = "answered"
  /\ C1_Matches(5) /\ C1_Matches(6)
  /\ \A j \in 1..4 : ~C1_Matches(j)
  /\ answer.template = StabilityText

----------------------------------------------------------------------------
(* C2: precedence of the risk levels *)

C2_Collapse == metrics["structural_collapse_by_category"]

C2_HighestLossRatio == metrics["structural_inefficiency_by_category"][1].avg_loss_ratio

\* the level by precedence, with the given words for the first two levels
C2_Level(severe, high) ==
  IF \E i \in DOMAIN C2_Collapse :
       /\ C2_Collapse[i].loss_consistency_ratio.k = "fin"
       /\ C2_Collapse[i].loss_consistency_ratio.n > 0
  THEN severe
  ELSE IF C2_HighestLossRatio.n * 100 > 35 * C2_HighestLossRatio.d THEN high
  ELSE IF C2_HighestLossRatio.n * 100 > 25 * C2_HighestLossRatio.d THEN "Moderate"
  ELSE "Low"

C2_YearProfit(c, y) ==
  LET In(r) == r.category = c /\ r.year = y
  IN Sum(Column(SelectSeq(df.rows, In), "profit"))

C2_Sells(c, y) == \E i \in DOMAIN df.rows : df.rows[i].category = c /\ df.rows[i].year = y

\* category c has line items, and a negative total profit in every year in
\* which it has any
C2_LosesEveryYear(c) ==
  /\ \E i \in DOMAIN df.rows : df.rows[i].category = c
  /\ \A i \in DOMAIN YearOrder :
       C2_Sells(c, YearOrder[i]) => C2_YearProfit(c, YearOrder[i]) < 0

\* C2 as stated: risk_level is "Severe" when the largest collapse ratio is
\* above 0, else "High" when the first row's avg_loss_ratio is above 0.35,
\* else "Moderate" when it is above 0.25, else "Low".
C2_RiskPrecedence ==
  pc = "summarized" => summary.risk_level = C2_Level("Severe", "High")

\* C2, amended: the same precedence, the first two levels being spelled
\* "Severe (Structural Collapse Detected)" and "High (Structural
\* Inefficiency)"; a category losing in each of its years makes the level the
\* severe one whatever the inefficiency ratios.
C2_RiskPrecedenceLabels ==
  pc = "summarized" =>
    /\ summary.risk_level =
         C2_Level("Severe (Structural Collapse Detected)", "High (Structural Inefficiency)")
    /\ (\E i \in DOMAIN CategoryOrder : C2_LosesEveryYear(CategoryOrder[i]))
         => summary.risk_level = "Severe (Structural Collapse Detected)"

\* Furniture lost in both years, Technology never, and the summary is severe
C2_TwoOfTwoYearsSevere ==
  /\ pc = "summarized"
  /\ \A i \in DOMAIN YearOrder :
       C2_Sells("Furniture", YearOrder[i]) /\ C2_YearProfit("Furniture", YearOrder[i]) < 0
  /\ \E i \in DOMAIN df.rows : df.rows[i].category = "Technology"
  /\ \A i \in DOMAIN df.rows : df.rows[i].category = "Technology" => df.rows[i].profit > 0
  /\ summary.risk_level = "Severe (Structural Collapse Detected)"

----------------------------------------------------------------------------
(* C3: the discount buckets partition the table *)

C3_Buckets == metrics["discount_analysis"]

C3_Total(field) == Sum([b \in DOMAIN C3_Buckets |-> C3_Buckets[b][field]])

\* a discount, in hundredths, inside the bucketed range (-0.01, 1.0]
C3_InRange(discount) == -1 < discount /\ discount <= 100

C3_Bucket(discount) ==
  IF discount <= 10 THEN 1 ELSE IF discount <= 20 THEN 2 ELSE IF discount <= 30 THEN 3 ELSE 4

C3_Bucketed == LET In(r) == C3_InRange(r.discount) IN SelectSeq(df.rows, In)

C3_OrderBuckets ==
  {<<C3_Bucketed[i].order_id, C3_Bucket(C3_Bucketed[i].discount)>> : i \in DOMAIN C3_Bucketed}

\* C3 as stated: for every table the bucket sums of total_sales and
\* total_profit equal the table's sums of sales and profit, and the sum of
\* order_count equals the number of distinct order_id.
C3_Partition ==
  Computed =>
    /\ C3_Total("total_sales") = Sum(Column(df.rows, "sales"))
    /\ C3_Total("total_profit") = Sum(Column(df.rows, "profit"))
    /\ C3_Total("order_count") = NUnique(df.rows, "order_id")

\* C3, amended: the bucket sums of total_sales and total_profit equal the sums
\* over the line items whose discount lies in (-0.01, 1.0], the whole table
\* when every discount does; the sum of order_count equals the number of
\* distinct (order_id, bucket) pairs of those line items, at least the number
\* of their distinct order_id and equal to it exactly when no order has line
\* items in two buckets.
C3_PartitionOfBucketed ==
  Computed =>
    /\ C3_Total("total_sales") = Sum(Column(C3_Bucketed, "sales"))
    /\ C3_Total("total_profit") = Sum(Column(C3_Bucketed, "profit"))
    /\ C3_Total("order_count") = Cardinality(C3_OrderBuckets)
    /\ C3_Total("order_count") >= NUnique(C3_Bucketed, "order_id")
    /\ C3_Total("order_count") = NUnique(C3_Bucketed, "order_id")
         <=> \A p, q \in C3_OrderBuckets : p[1] = q[1] => p[2] = q[2]
    /\ (\A i \in DOMAIN df.rows : C3_InRange(df.rows[i].discount))
         => /\ C3_Total("total_sales") = Sum(Column(df.rows, "sales"))
            /\ C3_Total("total_profit") = Sum(Column(df.rows, "profit"))

\* a table with an order in two buckets and a line item outside the range
\* has been analysed
C3_SplitOrderAnalysed ==
  /\ Computed
  /\ \E p, q \in C3_OrderBuckets : p[1] = q[1] /\ p[2] # q[2]
  /\ \E i \in DOMAIN df.rows : ~C3_InRange(df.rows[i].discount)
  /\ C3_Total("order_count") > NUnique(df.rows, "order_id")

----------------------------------------------------------------------------
(* C4: a zero denominator *)

\* C4: a table with zero revenue or zero orders ends compute_advanced_metrics
\* in an error, and no result carries a NaN or infinite percentage.
C4_ZeroDenominatorFails ==
  /\ (/\ pc # "uploaded"
      /\ \/ Sum(Column(df.rows, "sales")) = 0
         \/ NUnique(df.rows, "order_id") = 0)
       => pc = "failed" /\ exc # None
  /\ Computed =>
       /\ metrics["business_health"].profit_margin_pct.k = "fin"
       /\ metrics["business_health"].loss_order_pct.k = "fin"

----------------------------------------------------------------------------
(* C5: all ten keys or an error *)

\* the required columns the file lacks once its headers are normalized
C5_Missing == {c \in RequiredColumns : ~HasColumn(normalize_columns(df), c)}

\* C5: compute_advanced_metrics returns a mapping with all ten keys or ends
\* in an error with nothing returned; with a required column missing after
\* normalization it ends in an error.
C5_AllOrNothing ==
  /\ metrics = None \/ DOMAIN metrics = MetricKeys
  /\ Cardinality(MetricKeys) = 10
  /\ pc = "uploaded" => metrics = None
  /\ Computed => metrics # None /\ exc = None /\ C5_Missing = {}
  /\ pc = "failed" => metrics = None /\ exc # None
  /\ (pc # "uploaded" /\ C5_Missing # {}) => pc = "failed"

\* a file lacking only year has failed after seven metrics were computed
C5_LateFailure ==
  /\ pc = "failed"
  /\ C5_Missing = {"year"}
  /\ df.rows # <<>>
  /\ metrics = None

----------------------------------------------------------------------------
(* C6: the error names the missing column *)

\* C6: when exactly one required column is missing from a non-empty file,
\* the error raised names that column.
C6_ErrorNamesColumn ==
  \A c \in RequiredColumns :
    (pc = "failed" /\ df.rows # <<>> /\ C5_Missing = {c})
      => \E i \in DOMAIN exc.columns : exc.columns[i] = c

----------------------------------------------------------------------------
(* C7: the health score *)

C7_Health == metrics["business_health"]

\* the score before rounding, in units of 1/200, for a finite margin
C7_Exact200 ==
  Max0(20000 - 4 * Max0(-Hundredths(C7_Health.profit_margin_pct))
             - 3 * Max0(Hundredths(C7_Health.loss_order_pct) - 1500))

\* C7: health_score is max(0, 100 - 2*max(0, -p) - 1.5*max(0, l - 15)) to two
\* decimals, p the profit margin percent and l the loss-order percent; it
\* lies in [0, 100]; a margin that is not negative and a loss-order percent of
\* at most 15 add no penalty.
C7_HealthScoreFormula ==
  Computed =>
    /\ C7_Health.health_score.k = "fin"
    /\ C7_Health.loss_order_pct.k = "fin"
    /\ 0 <= Hundredths(C7_Health.health_score)
    /\ Hundredths(C7_Health.health_score) <= 10000
    /\ C7_Health.profit_margin_pct.k = "fin" =>
         /\ 2 * Hundredths(C7_Health.health_score) - C7_Exact200 \in {-1, 0, 1}
         /\ (/\ C7_Health.profit_margin_pct.n >= 0
             /\ Hundredths(C7_Health.loss_order_pct) <= 1500)
              => Hundredths(C7_Health.health_score) = 10000
    /\ (/\ C7_Health.profit_margin_pct.k \in {"inf", "nan"}
        /\ Hundredths(C7_Health.loss_order_pct) <= 1500)
         => Hundredths(C7_Health.health_score) = 10000
    /\ C7_Health.profit_margin_pct.k = "-inf" => Hundredths(C7_Health.health_score) = 0

\* a table with a negative margin and more than 15% loss orders has been
\* scored strictly between 0 and 100
C7_BothPenaltiesScored ==
  /\ Computed
  /\ C7_Health.profit_margin_pct.k = "fin"
  /\ C7_Health.profit_margin_pct.n < 0
  /\ Hundredths(C7_Health.loss_order_pct) > 1500
  /\ Hundredths(C7_Health.health_score) > 0
  /\ Hundredths(C7_Health.health_score) < 10000

----------------------------------------------------------------------------
(* C8: a table without losses *)

C8_AllPositive ==
  /\ df.rows # <<>>
  /\ \A i \in DOMAIN df.rows : df.rows[i].profit > 0

\* C8: for a table of N >= 1 line items whose profit is positive in every
\* line item, the metrics are computed, loss_order_pct is 0 and risk_level is
\* "Low".
C8_NoLossIsLow ==
  C8_AllPositive =>
    /\ pc # "failed"
    /\ Computed => metrics["business_health"].loss_order_pct = Int2F(0)
    /\ pc = "summarized" =>
         /\ summary.loss_order_pct = Int2F(0)
         /\ summary.risk_level = "Low"

\* a table of both categories with positive profit only has been summarized
C8_ProfitableSummarized ==
  /\ pc = "summarized"
  /\ C8_AllPositive
  /\ \A j \in DOMAIN CategoryOrder :
       \E i \in DOMAIN df.rows : df.rows[i].category = CategoryOrder[j]
  /\ summary.risk_level = "Low"

----------------------------------------------------------------------------
(* C9: the stability thresholds *)

C9_Inefficiency == metrics["structural_inefficiency_by_category"]

\* the label of a standard deviation whose square is the finite value v:
\* below 0.05, below 0.15, or neither
C9_LabelOfSquare(v) ==
  IF v.n * 400 < v.d THEN "Stable"
  ELSE IF v.n * 400 < 9 * v.d THEN "Moderate"
  ELSE "Unstable"

\* C9: a std_loss_ratio below 0.05 is labelled "Stable", one below 0.15
\* "Moderate", any other "Unstable": exactly 0.05 is "Moderate" and exactly
\* 0.15 "Unstable"; a category seen in one period has a standard deviation
\* of 0 and is "Stable".
C9_StabilityThresholds ==
  /\ label # Unlabelled =>
       /\ label = "Stable" <=> probe * 100 < 5 * 200
       /\ label = "Moderate" <=> (probe * 100 >= 5 * 200 /\ probe * 100 < 15 * 200)
       /\ label = "Unstable" <=> probe * 100 >= 15 * 200
  /\ Computed =>
       \A i \in DOMAIN C9_Inefficiency :
         /\ C9_Inefficiency[i].std_loss_ratio.sqrt_of.k = "fin"
         /\ C9_Inefficiency[i].stability =
              C9_LabelOfSquare(C9_Inefficiency[i].std_loss_ratio.sqrt_of)
         /\ C9_Inefficiency[i].periods_analyzed = 1 =>
              /\ C9_Inefficiency[i].std_loss_ratio.sqrt_of = Int2F(0)
              /\ C9_Inefficiency[i].stability = "Stable"

\* a standard deviation of exactly 0.05 has been labelled "Moderate"
C9_ExactlyFiveHundredths ==
  /\ probe * 100 = 5 * 200
  /\ label = "Moderate"

----------------------------------------------------------------------------
(* C10: the range of the loss ratios *)

\* C10: every avg_loss_ratio lies in [0, 1], and highest_loss_ratio in
\* [0, 100].
C10_RatiosInRange ==
  /\ Computed =>
       \A i \in DOMAIN C9_Inefficiency :
         /\ C9_Inefficiency[i].avg_loss_ratio.k = "fin"
         /\ 0 <= C9_Inefficiency[i].avg_loss_ratio.n
         /\ C9_Inefficiency[i].avg_loss_ratio.n <= C9_Inefficiency[i].avg_loss_ratio.d
  /\ pc = "summarized" =>
       /\ summary.highest_loss_ratio.k = "fin"
       /\ 0 <= summary.highest_loss_ratio.n
       /\ summary.highest_loss_ratio.n <= 100 * summary.highest_loss_ratio.d

====
